---- MODULE Spec2Model ----
(***************************************************************************)
(* AtomicLock (src/src/AtomicLock.h): a spinlock over one std::atomic<bool>.*)
(*                                                                         *)
(* Every atomic operation on ThisLock (load, compare_exchange_strong,      *)
(* store) and every std::this_thread::yield() is one step of the calling   *)
(* thread; the steps of the threads interleave arbitrarily.  The cell is a *)
(* single atomic object, so its modifications are totally ordered and a    *)
(* read-modify-write always reads the last value of that order.            *)
(*                                                                         *)
(* The threads run client code around the lock.  role[t] fixes what the    *)
(* client of thread t may call; holds, op, ret, heldAtCall, nLoad, nCas,   *)
(* yieldsFree, passed and attempted are history variables that record what *)
(* the calls did and never influence the lock.                             *)
(*                                                                         *)
(* The counter the clients guard with the lock is an ordinary (non-atomic) *)
(* object.  sync and pub follow the happens-before order the memory_order  *)
(* arguments of the atomic operations establish: a thread outside sync     *)
(* that reads the counter races with its last write and may read any       *)
(* earlier value.                                                          *)
(***************************************************************************)
EXTENDS Naturals, FiniteSets

\* ------------------------------------------------------------------ bounds
NThreads == 3
MaxIncrements == 2
CountCap == 2

\* --------------------------------------------------------------- constants
UNLOCKED == FALSE
LOCKED == TRUE

Threads == 1..NThreads

Roles == {"none", "try_once", "any"}

\* Clients that use the lock as the contract asks: acquire, then release.
\* A "watched" client is an "any" client whose waiting is recorded; a
\* "reentrant" client also calls lock()/try_lock() while it holds the lock,
\* an "owner" client also destroys the lock.
Users == {"any", "watched", "reentrant", "owner"}

\* Clients outside the contract: "rogue" calls unlock() without holding the
\* lock, "reentrant" acquires again, "owner" destroys the lock whatever its
\* state.
MisuseRoles == {"rogue", "reentrant", "owner"}

\* The threads are interchangeable: the clients are listed in this order.
RoleRank(r) == CASE r = "none" -> 0 [] r = "try_once" -> 1 [] OTHER -> 2

LockPcs == {"lock_load", "lock_cas", "lock_yield"}
TryPcs == {"try_load", "try_cas"}
WaitPcs == {"wait_load", "wait_yield"}
PcValues == {"idle", "cs_write"} \cup LockPcs \cup TryPcs \cup WaitPcs

VARIABLES
  ThisLock,     \* the atomic cell
  pc,           \* pc[t]: where thread t stands
  op,           \* op[t]: the member function t is in, or returned from last
  ret,          \* ret[t]: what t's last try_lock() returned
  holds,        \* holds[t]: t is between its successful lock()/try_lock() and its unlock()
  heldAtCall,   \* heldAtCall[t]: the cell was LOCKED when t's try_lock() or wait() began
  nLoad,        \* nLoad[t]: atomic loads of t's current or last try_lock()
  nCas,         \* nCas[t]: compare-and-swaps of t's current or last try_lock()
  yieldsFree,   \* yieldsFree[t]: yields of t's lock() while UNLOCKED, since another thread last acquired
  counter,      \* the client's shared counter, guarded by the lock
  tmp,          \* tmp[t]: the counter value t read inside its critical section
  attempted,    \* increments of the counter begun so far
  role,         \* role[t]: what the client of t may call
  passed,       \* acquisitions by other threads while the "watched" thread is in lock()
  sync,         \* the holders every write of the counter so far happens-before
  pub           \* every write of the counter so far happens-before the store
                \* that wrote UNLOCKED (read only while the cell is UNLOCKED,
                \* recomputed by every store)

vars == <<ThisLock, pc, op, ret, holds, heldAtCall, nLoad, nCas, yieldsFree,
          counter, tmp, attempted, role, passed, sync, pub>>

\* The history counters saturate at CountCap.
Bump(n) == IF n < CountCap THEN n + 1 ELSE n

\* The memory_order arguments of the atomic operations.
cas_success_order == "acquire"
cas_failure_order == "relaxed"

\* unlock() whose store is relaxed.
store_order_relaxed == "relaxed"

store_order == "release"

\* An operation with this order is an acquire / a release operation.
Acquires(order) == order \in {"acquire", "acq_rel", "seq_cst"}
Releases(order) == order \in {"release", "acq_rel", "seq_cst"}

\* std::atomic<bool>::compare_exchange_strong(expected, desired) on a cell
\* holding cur: the value stored and whether the exchange took place.
compare_exchange_strong_always(cur, expected, desired) ==
  [ok |-> TRUE, val |-> desired]

\* compare_exchange_strong that gives up spuriously: it never swaps.
compare_exchange_strong_never(cur, expected, desired) ==
  [ok |-> FALSE, val |-> cur]

\* compare_exchange_strong that, when the comparison fails, stores the
\* expected value into the cell.
compare_exchange_strong_swapback(cur, expected, desired) ==
  IF cur = expected THEN [ok |-> TRUE, val |-> desired]
                    ELSE [ok |-> FALSE, val |-> expected]

compare_exchange_strong(cur, expected, desired) ==
  IF cur = expected THEN [ok |-> TRUE, val |-> desired]
                    ELSE [ok |-> FALSE, val |-> cur]

\* ------------------------------------------------------------ construction
\* A lock constructed LOCKED.
Constructed_locked ==
  /\ ThisLock = LOCKED
  /\ pc = [t \in Threads |-> "idle"]
  /\ op = [t \in Threads |-> "none"]
  /\ ret = [t \in Threads |-> "none"]
  /\ holds = [t \in Threads |-> FALSE]
  /\ heldAtCall = [t \in Threads |-> FALSE]
  /\ nLoad = [t \in Threads |-> 0]
  /\ nCas = [t \in Threads |-> 0]
  /\ yieldsFree = [t \in Threads |-> 0]
  /\ counter = 0
  /\ tmp = [t \in Threads |-> 0]
  /\ attempted = 0
  /\ passed = 0
  /\ sync = {}
  /\ pub = TRUE

Constructed ==
  /\ ThisLock = UNLOCKED
  /\ pc = [t \in Threads |-> "idle"]
  /\ op = [t \in Threads |-> "none"]
  /\ ret = [t \in Threads |-> "none"]
  /\ holds = [t \in Threads |-> FALSE]
  /\ heldAtCall = [t \in Threads |-> FALSE]
  /\ nLoad = [t \in Threads |-> 0]
  /\ nCas = [t \in Threads |-> 0]
  /\ yieldsFree = [t \in Threads |-> 0]
  /\ counter = 0
  /\ tmp = [t \in Threads |-> 0]
  /\ attempted = 0
  /\ passed = 0
  /\ sync = {}
  /\ pub = TRUE

Init ==
  /\ Constructed
  /\ role \in [Threads -> Roles]
  /\ \A t \in Threads : \A u \in Threads :
       t < u => RoleRank(role[t]) <= RoleRank(role[u])

\* ----------------------------------------------------------------- client
\* The client of t may start the call o now.
Destroyed == \E u \in Threads : op[u] = "destroy"

MayCall(t, o) ==
  /\ pc[t] = "idle"
  /\ ~Destroyed
  /\ \/ role[t] \in Users /\ ~holds[t] /\ o \in {"lock", "try_lock", "wait"}
     \/ role[t] \in Users /\ holds[t] /\ o \in {"unlock", "incr"}
     \/ role[t] = "try_once" /\ op[t] = "none" /\ o = "try_lock"
     \/ role[t] = "reentrant" /\ holds[t] /\ o \in {"lock", "try_lock"}
     \/ role[t] = "rogue" /\ o = "unlock"
     \/ role[t] = "owner" /\ o = "destroy" /\ \A u \in Threads : pc[u] = "idle"

\* What a call resets when it begins.
Begin(t, o, first) ==
  /\ pc' = [pc EXCEPT ![t] = first]
  /\ op' = [op EXCEPT ![t] = o]
  /\ ret' = [ret EXCEPT ![t] = "none"]
  /\ heldAtCall' = [heldAtCall EXCEPT ![t] =
                      (o \in {"try_lock", "wait"} /\ ThisLock = LOCKED)]
  /\ nLoad' = [nLoad EXCEPT ![t] = 0]
  /\ nCas' = [nCas EXCEPT ![t] = 0]
  /\ yieldsFree' = [yieldsFree EXCEPT ![t] = 0]
  /\ passed' = IF role[t] = "watched" THEN 0 ELSE passed

\* A thread other than t is "watched" and inside lock().
Overtakes(t) ==
  \E w \in Threads \ {t} : role[w] = "watched" /\ pc[w] \in LockPcs

\* What a successful compare-and-swap of t does to the history: with an
\* acquire order it synchronizes with the release that heads the release
\* sequence of the value it read.
Acquired(t) ==
  /\ passed' = IF Overtakes(t) THEN Bump(passed) ELSE passed
  /\ sync' = IF Acquires(cas_success_order) /\ pub THEN sync \cup {t}
                                                    ELSE sync \ {t}
  /\ pub' = pub

\* ------------------------------------------------------------------ lock()
lock_call(t) ==
  /\ MayCall(t, "lock")
  /\ Begin(t, "lock", "lock_load")
  /\ UNCHANGED <<ThisLock, holds, counter, tmp, attempted, role, sync, pub>>

\* lock() whose test of the loaded value is inverted.
lock_Load_inverted(t) ==
  /\ pc[t] = "lock_load"
  /\ pc' = [pc EXCEPT ![t] = IF ThisLock = LOCKED THEN "lock_cas" ELSE "lock_yield"]
  /\ UNCHANGED <<ThisLock, op, ret, holds, heldAtCall, nLoad, nCas, yieldsFree,
                 counter, tmp, attempted, role, passed, sync, pub>>

\* lock() of a recursive lock: a caller that already holds returns at once.
lock_Load_recursive(t) ==
  /\ pc[t] = "lock_load"
  /\ pc' = [pc EXCEPT ![t] = IF holds[t] THEN "idle"
                             ELSE IF ThisLock = UNLOCKED THEN "lock_cas"
                             ELSE "lock_yield"]
  /\ UNCHANGED <<ThisLock, op, ret, holds, heldAtCall, nLoad, nCas, yieldsFree,
                 counter, tmp, attempted, role, passed, sync, pub>>

lock_Load(t) ==
  /\ pc[t] = "lock_load"
  /\ pc' = [pc EXCEPT ![t] = IF ThisLock = UNLOCKED THEN "lock_cas" ELSE "lock_yield"]
  /\ UNCHANGED <<ThisLock, op, ret, holds, heldAtCall, nLoad, nCas, yieldsFree,
                 counter, tmp, attempted, role, passed, sync, pub>>

\* lock() that returns after its compare-and-swap whether or not it succeeded.
lock_CAS_unchecked(t) ==
  /\ pc[t] = "lock_cas"
  /\ ThisLock' = compare_exchange_strong(ThisLock, UNLOCKED, LOCKED).val
  /\ pc' = [pc EXCEPT ![t] = "idle"]
  /\ holds' = [holds EXCEPT ![t] = TRUE]
  /\ UNCHANGED <<op, ret, heldAtCall, nLoad, nCas, yieldsFree, counter, tmp,
                 attempted, role, passed, sync, pub>>

\* lock() of a lock that serves a waiting thread first: the compare-and-swap
\* does not overtake the watched thread.
lock_CAS_polite(t) ==
  /\ pc[t] = "lock_cas"
  /\ LET r == compare_exchange_strong(ThisLock, UNLOCKED, LOCKED) IN
       IF r.ok /\ ~Overtakes(t)
         THEN /\ ThisLock' = r.val
              /\ pc' = [pc EXCEPT ![t] = "idle"]
              /\ holds' = [holds EXCEPT ![t] = TRUE]
              /\ yieldsFree' = [u \in Threads |-> IF u = t THEN yieldsFree[u] ELSE 0]
              /\ Acquired(t)
         ELSE /\ pc' = [pc EXCEPT ![t] = "lock_yield"]
              /\ UNCHANGED <<ThisLock, holds, yieldsFree, passed, sync, pub>>
  /\ UNCHANGED <<op, ret, heldAtCall, nLoad, nCas, counter, tmp, attempted, role>>

\* lock() that backs off under contention: its compare-and-swap gives way
\* whenever another thread is inside lock() too.
lock_CAS_backoff(t) ==
  /\ pc[t] = "lock_cas"
  /\ LET r == compare_exchange_strong(ThisLock, UNLOCKED, LOCKED) IN
       IF r.ok /\ ~(\E u \in Threads \ {t} : pc[u] \in LockPcs)
         THEN /\ ThisLock' = r.val
              /\ pc' = [pc EXCEPT ![t] = "idle"]
              /\ holds' = [holds EXCEPT ![t] = TRUE]
              /\ yieldsFree' = [u \in Threads |-> IF u = t THEN yieldsFree[u] ELSE 0]
              /\ Acquired(t)
         ELSE /\ pc' = [pc EXCEPT ![t] = "lock_yield"]
              /\ UNCHANGED <<ThisLock, holds, yieldsFree, passed, sync, pub>>
  /\ UNCHANGED <<op, ret, heldAtCall, nLoad, nCas, counter, tmp, attempted, role>>

lock_CAS(t) ==
  /\ pc[t] = "lock_cas"
  /\ LET r == compare_exchange_strong(ThisLock, UNLOCKED, LOCKED) IN
       /\ ThisLock' = r.val
       /\ IF r.ok
            THEN /\ pc' = [pc EXCEPT ![t] = "idle"]
                 /\ holds' = [holds EXCEPT ![t] = TRUE]
                 /\ yieldsFree' = [u \in Threads |-> IF u = t THEN yieldsFree[u] ELSE 0]
                 /\ Acquired(t)
            ELSE /\ pc' = [pc EXCEPT ![t] = "lock_yield"]
                 /\ UNCHANGED <<holds, yieldsFree, passed, sync, pub>>
  /\ UNCHANGED <<op, ret, heldAtCall, nLoad, nCas, counter, tmp, attempted, role>>

\* lock() that gives up spinning after one yield and returns.
lock_Yield_return(t) ==
  /\ pc[t] = "lock_yield"
  /\ pc' = [pc EXCEPT ![t] = "idle"]
  /\ holds' = [holds EXCEPT ![t] = TRUE]
  /\ UNCHANGED <<ThisLock, op, ret, heldAtCall, nLoad, nCas, yieldsFree,
                 counter, tmp, attempted, role, passed, sync, pub>>

lock_Yield(t) ==
  /\ pc[t] = "lock_yield"
  /\ pc' = [pc EXCEPT ![t] = "lock_load"]
  /\ yieldsFree' = [yieldsFree EXCEPT ![t] =
                      IF ThisLock = UNLOCKED THEN Bump(@) ELSE @]
  /\ UNCHANGED <<ThisLock, op, ret, holds, heldAtCall, nLoad, nCas,
                 counter, tmp, attempted, role, passed, sync, pub>>

\* -------------------------------------------------------------- try_lock()
\* try_lock() that starts over when its compare-and-swap fails.
try_lock_CAS_retry(t) ==
  /\ pc[t] = "try_cas"
  /\ nCas' = [nCas EXCEPT ![t] = Bump(@)]
  /\ LET r == compare_exchange_strong(ThisLock, UNLOCKED, LOCKED) IN
       /\ ThisLock' = r.val
       /\ ret' = [ret EXCEPT ![t] = IF r.ok THEN "true" ELSE "none"]
       /\ holds' = [holds EXCEPT ![t] = r.ok]
       /\ pc' = [pc EXCEPT ![t] = IF r.ok THEN "idle" ELSE "try_load"]
  /\ UNCHANGED <<op, heldAtCall, nLoad, yieldsFree, counter, tmp, attempted, role, passed, sync, pub>>

try_lock_call(t) ==
  /\ MayCall(t, "try_lock")
  /\ Begin(t, "try_lock", "try_load")
  /\ UNCHANGED <<ThisLock, holds, counter, tmp, attempted, role, sync, pub>>

\* try_lock() whose test of the loaded value is inverted.
try_lock_Load_inverted(t) ==
  /\ pc[t] = "try_load"
  /\ nLoad' = [nLoad EXCEPT ![t] = Bump(@)]
  /\ IF ThisLock = LOCKED
       THEN /\ pc' = [pc EXCEPT ![t] = "try_cas"]
            /\ ret' = ret
       ELSE /\ pc' = [pc EXCEPT ![t] = "idle"]
            /\ ret' = [ret EXCEPT ![t] = "false"]
  /\ UNCHANGED <<ThisLock, op, holds, heldAtCall, nCas, yieldsFree,
                 counter, tmp, attempted, role, passed, sync, pub>>

try_lock_Load(t) ==
  /\ pc[t] = "try_load"
  /\ nLoad' = [nLoad EXCEPT ![t] = Bump(@)]
  /\ IF ThisLock = UNLOCKED
       THEN /\ pc' = [pc EXCEPT ![t] = "try_cas"]
            /\ ret' = ret
       ELSE /\ pc' = [pc EXCEPT ![t] = "idle"]
            /\ ret' = [ret EXCEPT ![t] = "false"]
  /\ UNCHANGED <<ThisLock, op, holds, heldAtCall, nCas, yieldsFree,
                 counter, tmp, attempted, role, passed, sync, pub>>

\* try_lock() that reports success whatever its compare-and-swap did.
try_lock_CAS_true(t) ==
  /\ pc[t] = "try_cas"
  /\ nCas' = [nCas EXCEPT ![t] = Bump(@)]
  /\ ThisLock' = compare_exchange_strong(ThisLock, UNLOCKED, LOCKED).val
  /\ ret' = [ret EXCEPT ![t] = "true"]
  /\ holds' = [holds EXCEPT ![t] = TRUE]
  /\ pc' = [pc EXCEPT ![t] = "idle"]
  /\ UNCHANGED <<op, heldAtCall, nLoad, yieldsFree, counter, tmp, attempted, role, passed, sync, pub>>

\* try_lock() built on compare_exchange_weak: the exchange may fail
\* spuriously on an UNLOCKED cell.
try_lock_CAS_weak(t) ==
  /\ pc[t] = "try_cas"
  /\ nCas' = [nCas EXCEPT ![t] = Bump(@)]
  /\ \E spurious \in BOOLEAN :
       LET r == IF spurious THEN [ok |-> FALSE, val |-> ThisLock]
                ELSE compare_exchange_strong(ThisLock, UNLOCKED, LOCKED) IN
         /\ ThisLock' = r.val
         /\ ret' = [ret EXCEPT ![t] = IF r.ok THEN "true" ELSE "false"]
         /\ holds' = [holds EXCEPT ![t] = r.ok]
         /\ yieldsFree' = IF r.ok THEN [u \in Threads |-> 0] ELSE yieldsFree
         /\ IF r.ok THEN Acquired(t) ELSE UNCHANGED <<passed, sync, pub>>
  /\ pc' = [pc EXCEPT ![t] = "idle"]
  /\ UNCHANGED <<op, heldAtCall, nLoad, counter, tmp, attempted, role>>

try_lock_CAS(t) ==
  /\ pc[t] = "try_cas"
  /\ nCas' = [nCas EXCEPT ![t] = Bump(@)]
  /\ LET r == compare_exchange_strong(ThisLock, UNLOCKED, LOCKED) IN
       /\ ThisLock' = r.val
       /\ ret' = [ret EXCEPT ![t] = IF r.ok THEN "true" ELSE "false"]
       /\ holds' = [holds EXCEPT ![t] = r.ok]
       /\ yieldsFree' = IF r.ok THEN [u \in Threads |-> 0] ELSE yieldsFree
       /\ IF r.ok THEN Acquired(t) ELSE UNCHANGED <<passed, sync, pub>>
  /\ pc' = [pc EXCEPT ![t] = "idle"]
  /\ UNCHANGED <<op, heldAtCall, nLoad, counter, tmp, attempted, role>>

\* ------------------------------------------------------------------ wait()
wait_call(t) ==
  /\ MayCall(t, "wait")
  /\ Begin(t, "wait", "wait_load")
  /\ UNCHANGED <<ThisLock, holds, counter, tmp, attempted, role, sync, pub>>

\* wait() that takes the lock when it finds it free.
wait_Load_acquire(t) ==
  /\ pc[t] = "wait_load"
  /\ pc' = [pc EXCEPT ![t] = IF ThisLock = LOCKED THEN "wait_yield" ELSE "idle"]
  /\ ThisLock' = LOCKED
  /\ UNCHANGED <<op, ret, holds, heldAtCall, nLoad, nCas, yieldsFree,
                 counter, tmp, attempted, role, passed, sync, pub>>

wait_Load(t) ==
  /\ pc[t] = "wait_load"
  /\ pc' = [pc EXCEPT ![t] = IF ThisLock = LOCKED THEN "wait_yield" ELSE "idle"]
  /\ UNCHANGED <<ThisLock, op, ret, holds, heldAtCall, nLoad, nCas, yieldsFree,
                 counter, tmp, attempted, role, passed, sync, pub>>

\* wait() that tests the cell once (if) instead of spinning (while).
wait_Yield_return(t) ==
  /\ pc[t] = "wait_yield"
  /\ pc' = [pc EXCEPT ![t] = "idle"]
  /\ UNCHANGED <<ThisLock, op, ret, holds, heldAtCall, nLoad, nCas, yieldsFree,
                 counter, tmp, attempted, role, passed, sync, pub>>

wait_Yield(t) ==
  /\ pc[t] = "wait_yield"
  /\ pc' = [pc EXCEPT ![t] = "wait_load"]
  /\ UNCHANGED <<ThisLock, op, ret, holds, heldAtCall, nLoad, nCas, yieldsFree,
                 counter, tmp, attempted, role, passed, sync, pub>>

\* unlock() that checks ownership: a caller that does not hold the lock
\* leaves the cell as it is.
unlock_checked(t) ==
  /\ MayCall(t, "unlock")
  /\ ThisLock' = IF holds[t] THEN UNLOCKED ELSE ThisLock
  /\ holds' = [holds EXCEPT ![t] = FALSE]
  /\ op' = [op EXCEPT ![t] = "unlock"]
  /\ ret' = [ret EXCEPT ![t] = "none"]
  /\ heldAtCall' = [heldAtCall EXCEPT ![t] = FALSE]
  /\ nLoad' = [nLoad EXCEPT ![t] = 0]
  /\ nCas' = [nCas EXCEPT ![t] = 0]
  /\ yieldsFree' = [yieldsFree EXCEPT ![t] = 0]
  /\ sync' = sync \ {t}
  /\ pub' = IF holds[t] THEN Releases(store_order) /\ t \in sync ELSE pub
  /\ UNCHANGED <<pc, counter, tmp, attempted, role, passed>>

\* ---------------------------------------------------------------- unlock()
\* unlock() that forgets the store.
unlock_nostore(t) ==
  /\ MayCall(t, "unlock")
  /\ ThisLock' = ThisLock
  /\ holds' = [holds EXCEPT ![t] = FALSE]
  /\ op' = [op EXCEPT ![t] = "unlock"]
  /\ ret' = [ret EXCEPT ![t] = "none"]
  /\ nLoad' = [nLoad EXCEPT ![t] = 0]
  /\ nCas' = [nCas EXCEPT ![t] = 0]
  /\ heldAtCall' = [heldAtCall EXCEPT ![t] = FALSE]
  /\ yieldsFree' = [yieldsFree EXCEPT ![t] = 0]
  /\ sync' = sync \ {t}
  /\ pub' = (Releases(store_order) /\ t \in sync)
  /\ UNCHANGED <<pc, counter, tmp, attempted, role, passed>>

unlock(t) ==
  /\ MayCall(t, "unlock")
  /\ ThisLock' = UNLOCKED
  /\ holds' = [holds EXCEPT ![t] = FALSE]
  /\ op' = [op EXCEPT ![t] = "unlock"]
  /\ ret' = [ret EXCEPT ![t] = "none"]
  /\ nLoad' = [nLoad EXCEPT ![t] = 0]
  /\ nCas' = [nCas EXCEPT ![t] = 0]
  /\ heldAtCall' = [heldAtCall EXCEPT ![t] = FALSE]
  /\ yieldsFree' = [yieldsFree EXCEPT ![t] = 0]
  /\ sync' = sync \ {t}
  /\ pub' = (Releases(store_order) /\ t \in sync)
  /\ UNCHANGED <<pc, counter, tmp, attempted, role, passed>>

\* ------------------------------------------- the client's critical section
incr_Read(t) ==
  /\ MayCall(t, "incr")
  /\ attempted < MaxIncrements
  /\ attempted' = attempted + 1
  /\ \E v \in (IF t \in sync THEN {counter} ELSE 0..counter) :
       tmp' = [tmp EXCEPT ![t] = v]
  /\ pc' = [pc EXCEPT ![t] = "cs_write"]
  /\ UNCHANGED <<ThisLock, op, ret, holds, heldAtCall, nLoad, nCas, yieldsFree,
                 counter, role, passed, sync, pub>>

incr_Write(t) ==
  /\ pc[t] = "cs_write"
  /\ counter' = tmp[t] + 1
  /\ tmp' = [tmp EXCEPT ![t] = 0]
  /\ pc' = [pc EXCEPT ![t] = "idle"]
  /\ sync' = sync \cap {t}
  /\ pub' = (pub /\ ThisLock = LOCKED)
  /\ UNCHANGED <<ThisLock, op, ret, holds, heldAtCall, nLoad, nCas, yieldsFree,
                 attempted, role, passed>>

\* ----------------------------------------------------------- ~AtomicLock()
\* ~AtomicLock() that leaves the cell as it is.
destructor_empty(t) ==
  /\ MayCall(t, "destroy")
  /\ op' = [op EXCEPT ![t] = "destroy"]
  /\ UNCHANGED <<ThisLock, pc, ret, holds, heldAtCall, nLoad, nCas, yieldsFree,
                 counter, tmp, attempted, role, passed, sync, pub>>

\* The destructor calls unlock(); no member function is called afterwards.
destructor(t) ==
  /\ MayCall(t, "destroy")
  /\ ThisLock' = UNLOCKED
  /\ op' = [op EXCEPT ![t] = "destroy"]
  /\ pub' = (Releases(store_order) /\ t \in sync)
  /\ UNCHANGED <<pc, ret, holds, heldAtCall, nLoad, nCas, yieldsFree,
                 counter, tmp, attempted, role, passed, sync>>

\* ------------------------------------------------------------ specification
\* A step of t inside a call it has begun.
Run(t) ==
  \/ lock_Load(t) \/ lock_CAS(t) \/ lock_Yield(t)
  \/ try_lock_Load(t) \/ try_lock_CAS(t)
  \/ wait_Load(t) \/ wait_Yield(t)
  \/ incr_Write(t)

Next ==
  \E t \in Threads :
    \/ lock_call(t) \/ lock_Load(t) \/ lock_CAS(t) \/ lock_Yield(t)
    \/ try_lock_call(t) \/ try_lock_Load(t) \/ try_lock_CAS(t)
    \/ wait_call(t) \/ wait_Load(t) \/ wait_Yield(t)
    \/ unlock(t)
    \/ incr_Read(t) \/ incr_Write(t)

Spec == Init /\ [][Next]_vars

\* The host scheduler is preemptive: a thread inside a call keeps running.
FairSpec == Spec /\ \A t \in Threads : WF_vars(Run(t))

\* The single-contender scenario: two clients use the lock, the others never
\* call it.
HandoffInit ==
  /\ Init
  /\ Cardinality({t \in Threads : role[t] = "any"}) = 2
  /\ \A t \in Threads : role[t] \in {"any", "none"}

HandoffSpec == HandoffInit /\ [][Next]_vars /\ \A t \in Threads : WF_vars(Run(t))

\* Clients outside the contract: one thread misuses the lock (it releases
\* without holding, acquires again while holding, or destroys the lock), the
\* others are ordinary clients.  Only the member functions of the lock take
\* steps; the counter is left alone.
MisuseInit ==
  /\ Constructed
  /\ \E m \in MisuseRoles :
       role = [t \in Threads |-> IF t = 1 THEN m ELSE "any"]

MisuseNext ==
  \E t \in Threads :
    \/ lock_call(t) \/ lock_Load(t) \/ lock_CAS(t) \/ lock_Yield(t)
    \/ try_lock_call(t) \/ try_lock_Load(t) \/ try_lock_CAS(t)
    \/ wait_call(t) \/ wait_Load(t) \/ wait_Yield(t)
    \/ unlock(t)
    \/ destructor(t)

MisuseSpec == MisuseInit /\ [][MisuseNext]_vars

\* Contention: every thread only cycles through lock(), the critical
\* section and unlock(); thread 1 is the one whose waiting is recorded.
ContendInit ==
  /\ Constructed
  /\ role = [t \in Threads |-> IF t = 1 THEN "watched" ELSE "any"]

ContendNext ==
  \E t \in Threads :
    \/ lock_call(t) \/ lock_Load(t) \/ lock_CAS(t) \/ lock_Yield(t)
    \/ unlock(t)
    \/ incr_Read(t) \/ incr_Write(t)

ContendSpec ==
  ContendInit /\ [][ContendNext]_vars /\ \A t \in Threads : WF_vars(Run(t))

\* A scheduler that is adversarial to the watched thread: it runs the
\* compare-and-swap of that thread only while the cell is LOCKED, and it
\* lets every thread, the watched one included, take its steps again and
\* again; every client keeps calling lock() and releases what it acquired.
StarveNext ==
  ContendNext /\ \A w \in Threads : role[w] = "watched" => ~holds'[w]

StarveSpec ==
  /\ ContendInit /\ [][StarveNext]_vars
  /\ \A t \in Threads : SF_vars(Run(t) /\ StarveNext)
  /\ \A t \in Threads : WF_vars(lock_call(t)) /\ WF_vars(unlock(t))

TypeOK ==
  /\ ThisLock \in BOOLEAN
  /\ pc \in [Threads -> PcValues]
  /\ op \in [Threads -> {"none", "lock", "try_lock", "wait", "unlock", "destroy"}]
  /\ ret \in [Threads -> {"none", "true", "false"}]
  /\ holds \in [Threads -> BOOLEAN]
  /\ heldAtCall \in [Threads -> BOOLEAN]
  /\ nLoad \in [Threads -> 0..CountCap]
  /\ nCas \in [Threads -> 0..CountCap]
  /\ yieldsFree \in [Threads -> 0..CountCap]
  /\ counter \in 0..MaxIncrements
  /\ tmp \in [Threads -> 0..MaxIncrements]
  /\ attempted \in 0..MaxIncrements
  /\ role \in [Threads -> Roles \cup Users \cup MisuseRoles]
  /\ passed \in 0..CountCap
  /\ sync \subseteq Threads
  /\ pub \in BOOLEAN

\* ------------------------------------------------------------------ claims
\* The threads between a successful lock()/try_lock() and their unlock().
Holders == {t \in Threads : holds[t]}

\* Every thread but t.
Others(t) == Threads \ {t}

\* C1: mutual exclusion. Every client here releases only a lock it holds; in
\* every reachable state at most one thread is between a successful
\* lock()/try_lock() and its unlock(), and a thread inside the critical
\* section is such a thread.
C1_MutualExclusion ==
  /\ Cardinality(Holders) <= 1
  /\ \A t \in Threads : pc[t] = "cs_write" => holds[t]

\* One thread holds the lock while another, which loaded UNLOCKED earlier, is
\* about to lose its compare-and-swap.
C1_Witness ==
  \E t \in Threads : \E u \in Others(t) :
    holds[t] /\ pc[u] = "lock_cas" /\ ThisLock = LOCKED

\* Every thread is outside any call and outside the critical section.
Finished == \A t \in Threads : pc[t] = "idle" /\ ~holds[t]

\* C2: no lost updates. Once every thread has finished (none is inside a call
\* or the critical section, none holds the lock), the counter equals the
\* number of increments attempted.
C2_NoLostUpdates == Finished => counter = attempted

\* All MaxIncrements increments are done, and two different threads have gone
\* through lock()/unlock() cycles.
C2_Witness ==
  /\ Finished
  /\ attempted = MaxIncrements
  /\ counter = MaxIncrements
  /\ \E t \in Threads : \E u \in Others(t) : op[t] = "unlock" /\ op[u] = "unlock"

\* t and u are the only clients, each calling try_lock() once.
TryRace(t, u) ==
  /\ t # u
  /\ role[t] = "try_once" /\ role[u] = "try_once"
  /\ \A v \in Threads \ {t, u} : role[v] = "none"

\* t has returned from a call of o and has begun nothing since.
Returned(t, o) == pc[t] = "idle" /\ op[t] = o

\* C3: two threads race try_lock() on the freshly constructed (UNLOCKED) lock
\* and no other thread ever operates on it; when both calls have returned,
\* exactly one returned true.
C3_TryRaceOneWinner ==
  \A t \in Threads : \A u \in Threads :
    (TryRace(t, u) /\ Returned(t, "try_lock") /\ Returned(u, "try_lock"))
      => /\ ret[t] \in {"true", "false"} /\ ret[u] \in {"true", "false"}
         /\ (ret[t] = "true") # (ret[u] = "true")

\* Both calls loaded UNLOCKED, both reached the compare-and-swap, u lost it.
C3_Witness ==
  \E t \in Threads : \E u \in Threads :
    /\ TryRace(t, u) /\ Returned(t, "try_lock") /\ Returned(u, "try_lock")
    /\ ret[t] = "true" /\ ret[u] = "false"
    /\ nCas[t] = 1 /\ nCas[u] = 1 /\ ~heldAtCall[u]

\* C4: lock() returns only by its own successful compare-and-swap: the step
\* in which t leaves lock() starts with the cell UNLOCKED and no thread
\* holding the lock (a holder at the time of the call has stored UNLOCKED
\* since), and it is t's compare-and-swap that makes it LOCKED.
C4_LockReturnsOnlyWhenAcquired ==
  [][\A t \in Threads :
       (pc[t] \in LockPcs /\ pc'[t] = "idle")
         => /\ pc[t] = "lock_cas"
            /\ ThisLock = UNLOCKED /\ Holders = {}
            /\ ThisLock' = LOCKED /\ Holders' = {t}]_vars

\* t has returned from a lock() in which it had to yield (the lock was taken)
\* and went round the loop after the holder u's unlock().
C4_Witness ==
  \E t \in Threads : \E u \in Others(t) :
    /\ Returned(t, "lock") /\ holds[t] /\ yieldsFree[t] = 1
    /\ op[u] = "unlock"

\* C5: prompt return with a single contender. In the two-client scenario,
\* under weak fairness of the threads' steps: a thread in lock() yields at
\* most once while the cell is UNLOCKED and no other thread has acquired it
\* since, and whenever a thread is in lock() and the cell is UNLOCKED, that
\* thread eventually returns holding the lock unless the other thread
\* acquires it.
C5_PromptReturn ==
  /\ [](\A t \in Threads : yieldsFree[t] <= 1)
  /\ \A t \in Threads :
       (pc[t] \in LockPcs /\ ThisLock = UNLOCKED)
         ~> ((Returned(t, "lock") /\ holds[t]) \/ (\E u \in Others(t) : holds[u]))

\* t returned from lock() after exactly one yield past the release, with no
\* other thread contending.
C5_Witness ==
  \E t \in Threads :
    /\ Returned(t, "lock") /\ holds[t] /\ yieldsFree[t] = 1
    /\ \A u \in Others(t) : pc[u] = "idle" /\ ~holds[u]

\* The client of t never calls unlock().
NeverReleases(t) == role[t] \in {"none", "try_once"}

\* C6: a try_lock() that ran from call to return while no other thread had
\* begun any call returned true and left the cell LOCKED; a try_lock() that
\* began on a LOCKED cell, when no other thread ever releases (so the cell is
\* LOCKED by an earlier successful try_lock() throughout the call), returned
\* false without a compare-and-swap and left the cell LOCKED, still held by
\* the first caller.
C6_TrySequential ==
  \A t \in Threads :
    /\ (Returned(t, "try_lock") /\ \A u \in Others(t) : op[u] = "none")
         => (ret[t] = "true" /\ ThisLock = LOCKED /\ holds[t])
    /\ ( /\ Returned(t, "try_lock") /\ heldAtCall[t]
         /\ \A u \in Others(t) : NeverReleases(u) )
         => /\ ret[t] = "false" /\ nLoad[t] = 1 /\ nCas[t] = 0
            /\ ThisLock = LOCKED /\ ~holds[t]
            /\ \E u \in Others(t) : holds[u] /\ Returned(u, "try_lock") /\ ret[u] = "true"

\* u's try_lock() succeeded; t then called try_lock() on the LOCKED cell and
\* got false.
C6_Witness ==
  \E t \in Threads : \E u \in Others(t) :
    /\ Returned(u, "try_lock") /\ ret[u] = "true" /\ holds[u]
    /\ \A v \in Others(t) : NeverReleases(v)
    /\ Returned(t, "try_lock") /\ heldAtCall[t] /\ ret[t] = "false"
    /\ ThisLock = LOCKED

\* Steps try_lock() still has to take from p.
TryRank(p) == CASE p = "try_load" -> 2 [] p = "try_cas" -> 1 [] OTHER -> 0

\* C7: try_lock() never spins and never blocks. A call makes at most one
\* load and at most one compare-and-swap; while a thread is inside the call
\* its next step is enabled whatever the other threads do; and each of its
\* steps brings it strictly nearer to the return (load, then
\* compare-and-swap, then return).
C7_TryLockBounded ==
  /\ [](\A t \in Threads :
          /\ nLoad[t] <= 1 /\ nCas[t] <= nLoad[t]
          /\ pc[t] \in TryPcs => ENABLED (try_lock_Load(t) \/ try_lock_CAS(t)))
  /\ [][\A t \in Threads :
          (pc[t] \in TryPcs /\ pc'[t] # pc[t])
            => /\ pc'[t] \in TryPcs \cup {"idle"}
               /\ TryRank(pc'[t]) < TryRank(pc[t])]_vars

\* t's try_lock() lost its compare-and-swap to a holder that never releases,
\* and has returned all the same.
C7_Witness ==
  \E t \in Threads : \E u \in Others(t) :
    /\ Returned(t, "try_lock") /\ ret[t] = "false" /\ nLoad[t] = 1 /\ nCas[t] = 1
    /\ role[u] = "try_once" /\ holds[u]

\* C8: the step in which wait() returns is a load that observed UNLOCKED: it
\* is taken from the load of the loop condition, with the cell UNLOCKED. So a
\* wait() that began on a LOCKED cell returns only after an unlock() has
\* stored UNLOCKED.
C8_WaitReturnsOnFree ==
  [][\A t \in Threads :
       (pc[t] \in WaitPcs /\ pc'[t] = "idle")
         => (pc[t] = "wait_load" /\ ThisLock = UNLOCKED)]_vars

\* t's wait() began on a LOCKED cell and has returned, after u's unlock().
C8_Witness ==
  \E t \in Threads : \E u \in Others(t) :
    Returned(t, "wait") /\ heldAtCall[t] /\ op[u] = "unlock"

\* C9: no step of wait() (its call, its loads, its yields, its return)
\* changes the cell or who holds the lock.
C9_WaitFrame ==
  [][\A t \in Threads :
       ((pc[t] \in WaitPcs \/ pc'[t] \in WaitPcs) /\ pc'[t] # pc[t])
         => (ThisLock' = ThisLock /\ holds' = holds)]_vars

\* t's wait() found the cell UNLOCKED and returned; the cell is still
\* UNLOCKED and nobody holds the lock.
C9_Witness ==
  \E t \in Threads :
    Returned(t, "wait") /\ ~heldAtCall[t] /\ ThisLock = UNLOCKED /\ Holders = {}

\* t is the only thread that uses the lock.
Solo(t) == role[t] = "any" /\ \A u \in Others(t) : role[u] = "none"

\* C10: round trip. The lock is constructed UNLOCKED; when a single thread
\* uses it, every lock() finds the cell UNLOCKED and never has to yield (so it
\* returns after its load and its compare-and-swap), the cell is LOCKED after
\* every lock() and UNLOCKED after every unlock(), any number of times.
C10_RoundTrip ==
  /\ (\A t \in Threads : op[t] = "none") => ThisLock = UNLOCKED
  /\ \A t \in Threads :
       Solo(t) => /\ pc[t] # "lock_yield"
                  /\ pc[t] \in LockPcs => ThisLock = UNLOCKED
                  /\ Returned(t, "lock") => (ThisLock = LOCKED /\ holds[t])
                  /\ Returned(t, "unlock") => (ThisLock = UNLOCKED /\ ~holds[t])

\* The single thread has released after critical sections that made all the
\* increments.
C10_Witness ==
  \E t \in Threads :
    Solo(t) /\ Returned(t, "unlock") /\ counter = MaxIncrements /\ ThisLock = UNLOCKED
\* C11: unlock() has no ownership check.  Every unlock() stores UNLOCKED,
\* also when the caller does not hold the lock, and takes the lock from
\* nobody's hands: the holder still believes it holds.  On the cell a rogue
\* release freed, the compare-and-swap of a further lock() succeeds while
\* the first holder is still inside its critical section.
C11_RogueRelease ==
  /\ [][\A t \in Threads :
          unlock(t) => /\ ThisLock' = UNLOCKED
                       /\ \A u \in Others(t) : holds'[u] = holds[u]]_vars
  /\ [](\A h \in Threads : \A u \in Others(h) :
          holds[h] /\ ThisLock = UNLOCKED /\ pc[u] = "lock_cas"
            => ENABLED (lock_CAS(u) /\ holds'[u] /\ holds'[h]))
  /\ [](\A h \in Threads : \A u \in Others(h) :
          holds[h] /\ ThisLock = UNLOCKED /\ pc[u] = "try_cas"
            => ENABLED (try_lock_CAS(u) /\ ret'[u] = "true" /\ holds'[h]))

\* A rogue release happened and two threads are between their successful
\* acquire and their release at once.
C11_Witness ==
  \E r \in Threads : \E h1 \in Others(r) : \E h2 \in Others(r) \ {h1} :
    /\ role[r] = "rogue" /\ op[r] = "unlock"
    /\ Returned(h1, "lock") /\ holds[h1]
    /\ Returned(h2, "try_lock") /\ holds[h2]

\* Thread t holds the lock and is inside a second call of lock().
Reentered(t) == holds[t] /\ pc[t] \in LockPcs

\* A step in which a thread other than t releases or destroys the lock.
ReleasedByOther(t) ==
  \E u \in Others(t) : unlock(u) \/ destructor(u)

\* C12: no re-entrancy.  A thread that holds the lock and calls lock() again
\* stays inside that call, the cell staying LOCKED, in every step in which no
\* other thread releases; it never reaches the compare-and-swap.  A try_lock()
\* of the holder returns false from its load and leaves the holder holding.
C12_NoReentrancy ==
  /\ [](\A t \in Threads : Reentered(t) => ThisLock = LOCKED /\ pc[t] # "lock_cas")
  /\ [][\A t \in Threads :
          Reentered(t) /\ ~ReleasedByOther(t) => Reentered(t)' /\ ThisLock' = LOCKED]_vars
  /\ [][\A t \in Threads :
          holds[t] /\ pc[t] = "try_load" /\ ~ReleasedByOther(t)
            => pc'[t] = "try_load"
               \/ (Returned(t, "try_lock")' /\ ret'[t] = "false" /\ nCas'[t] = 0
                   /\ holds'[t] /\ ThisLock' = LOCKED)]_vars

\* The holder spins in its second lock() while another thread spins too:
\* nobody is left to release.
C12_Witness ==
  \E t \in Threads : \E u \in Others(t) :
    /\ Reentered(t) /\ pc[t] = "lock_yield"
    /\ pc[u] = "lock_yield" /\ ~holds[u]

\* C13: wait() gives no exclusivity.  wait() acquires nothing, so after it
\* returned the cell may be LOCKED by another thread, and whenever another
\* thread stands at its compare-and-swap on the UNLOCKED cell that wait()
\* observed, that thread can take the lock; a lock() of the caller then has
\* to spin and a try_lock() of the caller can return false.
C13_WaitNoExclusivity ==
  \A t \in Threads :
    /\ Returned(t, "wait") => ~holds[t]
    /\ \A u \in Others(t) :
         Returned(t, "wait") /\ ThisLock = UNLOCKED /\ pc[u] \in {"lock_cas", "try_cas"}
           => ENABLED ((lock_CAS(u) \/ try_lock_CAS(u))
                       /\ ThisLock' = LOCKED /\ holds'[u] /\ Returned(t, "wait")')

\* wait() of t has returned, and the cell is LOCKED by another thread that
\* acquired it after t's call began on a free cell.
C13_Witness ==
  \E t \in Threads : \E u \in Others(t) :
    /\ Returned(t, "wait") /\ ~heldAtCall[t]
    /\ ThisLock = LOCKED /\ holds[u]

\* C14: destruction forces the lock to UNLOCKED.  Once the destructor has
\* run the cell is UNLOCKED, whether it was UNLOCKED or LOCKED before and
\* whichever thread held it: the destructor checks no ownership and takes
\* the lock from the hands of a thread that still believes it holds.
C14_DestructorUnlocks ==
  /\ Destroyed => ThisLock = UNLOCKED
  /\ \A t \in Threads : \A u \in Threads :
       ~Destroyed /\ role[t] = "owner" /\ holds[u] /\ (\A v \in Threads : pc[v] = "idle")
         => ENABLED (destructor(t) /\ ThisLock' = UNLOCKED /\ holds'[u])

\* The lock was destroyed by a thread while another thread held it.
C14_Witness ==
  \E t \in Threads : \E u \in Others(t) :
    op[t] = "destroy" /\ holds[u] /\ ThisLock = UNLOCKED

\* C15: no fairness.  Under a scheduler that takes the steps of every thread
\* again and again (weak fairness of each thread's steps holds), the other
\* threads keep acquiring and releasing while the watched thread, once it
\* called lock(), stays inside that call for ever without the lock: it is
\* overtaken as many times as the count records.
C15_NoFairness ==
  /\ \A t \in Threads : WF_vars(Run(t))
  /\ []<>(\E u \in Threads : holds[u]) /\ []<>(ThisLock = UNLOCKED)
  /\ \A w \in Threads :
       role[w] = "watched" => <>[](pc[w] \in LockPcs /\ ~holds[w] /\ passed = CountCap)

\* The watched thread stands at its compare-and-swap, having seen the cell
\* UNLOCKED, after it was overtaken as many times as the count records, and
\* another thread has taken the lock once more.
C15_Witness ==
  \E w \in Threads : \E u \in Others(w) :
    /\ role[w] = "watched" /\ pc[w] = "lock_cas" /\ passed = CountCap
    /\ holds[u] /\ ThisLock = LOCKED

\* C16: acquire/release pairing gives visibility.  The store of unlock() is
\* a release, the load and the successful compare-and-swap of lock() and
\* try_lock() are acquires and the failed compare-and-swap is relaxed; so
\* every write of the counter made before a release happens-before the
\* critical section of the thread that acquires next: every holder is
\* synchronized, a free lock carries every write so far, and the holder that
\* reads the counter reads its latest value.
C16_Visibility ==
  /\ cas_failure_order = "relaxed"
  /\ \A t \in Threads : holds[t] => t \in sync
  /\ ThisLock = UNLOCKED => pub
  /\ \A t \in Threads : pc[t] = "cs_write" => tmp[t] = counter

\* A thread that took the lock after another thread's release reads the
\* counter that was written before, and reads its latest value.
C16_Witness ==
  \E t \in Threads : \E u \in Others(t) :
    /\ op[u] = "unlock" /\ counter >= 1
    /\ holds[t] /\ t \in sync /\ pc[t] = "cs_write" /\ tmp[t] = counter

\* A step of thread t that only loads, yields or enters a call.
ReadOnlyStep(t) ==
  \/ lock_call(t) \/ lock_Load(t) \/ lock_Yield(t)
  \/ try_lock_call(t) \/ try_lock_Load(t)
  \/ wait_call(t) \/ wait_Load(t) \/ wait_Yield(t)

\* A compare-and-swap step of thread t, in lock() or in try_lock().
CasStep(t) == lock_CAS(t) \/ try_lock_CAS(t)

\* C17: the cell changes by two kinds of step only: from UNLOCKED to LOCKED
\* by a successful compare-and-swap of lock() or try_lock(), and from LOCKED
\* to UNLOCKED by the store of unlock() or of the destructor.  A load, a
\* yield and a failed compare-and-swap leave the cell as it is, and a
\* compare-and-swap on a LOCKED cell fails and leaves it LOCKED.
C17_CellTransitions ==
  /\ [][ThisLock' # ThisLock =>
          \/ /\ ThisLock = UNLOCKED /\ ThisLock' = LOCKED
             /\ \E t \in Threads : CasStep(t) /\ holds'[t]
          \/ /\ ThisLock = LOCKED /\ ThisLock' = UNLOCKED
             /\ \E t \in Threads : unlock(t) \/ destructor(t)]_vars
  /\ [][\A t \in Threads : ReadOnlyStep(t) => ThisLock' = ThisLock]_vars
  /\ [][\A t \in Threads :
          CasStep(t) /\ ThisLock = LOCKED
            => ThisLock' = LOCKED /\ holds'[t] = holds[t] /\ ret'[t] # "true"]_vars

\* A compare-and-swap ran on a LOCKED cell: try_lock() saw the cell UNLOCKED,
\* lost the race and returned false, and the cell is still LOCKED by the
\* winner.
C17_Witness ==
  \E t \in Threads : \E u \in Others(t) :
    /\ Returned(t, "try_lock") /\ ret[t] = "false" /\ nCas[t] = 1
    /\ holds[u] /\ ThisLock = LOCKED

\* The step in which try_lock() of thread t returns.
TryReturns(t) == pc[t] \in TryPcs /\ pc'[t] = "idle"

\* C18: try_lock() returns true exactly when the returning step is its own
\* compare-and-swap and that step took the cell from UNLOCKED to LOCKED.  It
\* returns false from its load when the load saw LOCKED, no compare-and-swap
\* having been attempted, and from its compare-and-swap when another thread
\* took the lock after the load saw UNLOCKED.  After the call the caller
\* holds the lock exactly if the call returned true.
C18_TryLockResult ==
  /\ [][\A t \in Threads : TryReturns(t) =>
          /\ ret'[t] \in {"true", "false"}
          /\ ret'[t] = "true" <=>
               (pc[t] = "try_cas" /\ ThisLock = UNLOCKED /\ ThisLock' = LOCKED)
          /\ ret'[t] = "false" <=>
               \/ pc[t] = "try_load" /\ ThisLock = LOCKED /\ nCas'[t] = 0
               \/ /\ pc[t] = "try_cas" /\ ThisLock = LOCKED /\ nCas'[t] = 1
                  /\ \E u \in Others(t) : holds[u]
          /\ ThisLock' = LOCKED]_vars
  /\ [](\A t \in Threads :
          Returned(t, "try_lock") => (holds[t] <=> ret[t] = "true"))

\* try_lock() was called on an UNLOCKED cell, lost the race between its load
\* and its compare-and-swap, and returned false: the caller does not hold.
C18_Witness ==
  \E t \in Threads :
    /\ Returned(t, "try_lock") /\ ret[t] = "false"
    /\ ~heldAtCall[t] /\ nLoad[t] = 1 /\ nCas[t] = 1 /\ ~holds[t]

\* C19: when the clients respect the contract (unlock() only by the holder,
\* no destruction during use), the cell is LOCKED exactly when one thread is
\* between its successful lock()/try_lock() and its unlock(), and UNLOCKED
\* exactly when no thread is.
C19_CellMatchesHolder ==
  /\ ThisLock = LOCKED <=> Cardinality(Holders) = 1
  /\ ThisLock = UNLOCKED <=> Holders = {}

\* The lock has been released by one thread and is now LOCKED by another,
\* which acquired it through try_lock(), while a third call spins on it.
C19_Witness ==
  \E t \in Threads : \E u \in Others(t) : \E v \in Others(t) :
    /\ ThisLock = LOCKED /\ holds[t] /\ Returned(t, "try_lock")
    /\ op[u] = "unlock" /\ pc[v] = "lock_yield"

\* Threads inside lock().
Spinners == {t \in Threads : pc[t] \in LockPcs}

\* C20: deadlock freedom under contention.  With the steps of every thread
\* taken fairly, whenever the cell is UNLOCKED and at least one thread is
\* inside lock(), some thread eventually acquires the lock: the contending
\* threads never keep one another out of a free lock.
C20_Progress ==
  (ThisLock = UNLOCKED /\ Spinners # {}) ~> (ThisLock = LOCKED /\ Holders # {})

\* The lock has been released and is UNLOCKED while every other thread is
\* inside lock(), each at a different place of the loop or contending at
\* the same one.
C20_Witness ==
  \E t \in Threads :
    /\ op[t] = "unlock" /\ pc[t] = "idle" /\ ThisLock = UNLOCKED
    /\ Spinners = Threads \ {t}
    /\ \E u \in Spinners : pc[u] = "lock_cas"

====
